---- MODULE Spec2Model ----
(***************************************************************************)
(* Defect Inspector: the grid cropper (src/utils/imageCropper.ts), the     *)
(* DefectViewer that crops with it, InspectionCard in both its versions,   *)
(* AdminPanel and the database schema of the migration.                    *)
(*                                                                         *)
(* Lengths are JavaScript numbers (IEEE doubles).  They are modelled as    *)
(* integers counting ticks, TicksPerPixel ticks to the pixel, so that a    *)
(* third of a pixel is a whole number of ticks.  The one inexact operation *)
(* of the cropper, the division by gridSize, is rounded as IEEE rounds it: *)
(* exact when the dividend is a multiple of 3, otherwise off by one tick in*)
(* the direction round-to-nearest takes for that dividend.                 *)
(***************************************************************************)
EXTENDS Integers, Sequences, FiniteSets

VARIABLES
    \* ImageCropper called directly
    imageWidth,     \* getGridSegmentRegion / getAllGridSegments argument, pixels
    imageHeight,    \* getGridSegmentRegion / getAllGridSegments argument, pixels
    gridIndex,      \* argument of the last getGridSegmentRegion call, -1 before any
    region,         \* CropRegion returned by the last getGridSegmentRegion call
    segments,       \* CropRegion[] returned by the last getAllGridSegments call
    \* InspectionCard's current image and its DefectViewer
    testImage,          \* [width, height] of the image at currentImage.image_path
    masterImage,        \* [width, height] of the image at golden_image.image_path
    showDefectViewer,   \* InspectionCard state
    selectedSegment,    \* DefectViewer state, -1 for null
    loading,            \* DefectViewer state
    inFlight,           \* loadCroppedImages calls awaiting Promise.all
    croppedTestImage,   \* DefectViewer state, NoCrop for ''
    croppedMasterImage, \* DefectViewer state, NoCrop for ''
    \* the tables of the migration, each a set of rows
    golden_images,
    test_images,
    image_segments,
    defect_records,
    \* one invocation of the analysis pipeline
    pipelineState,      \* the orchestrator's state
    job,                \* id of the test image being analysed, 0 for none
    segmentResults,     \* SegmentResults scored so far, in index order
    result,             \* AnalysisResult the aggregator produced, NoResult before
    \* InspectionCard (the version with decision buttons)
    images,             \* the loaded inspection queue
    currentIndex,
    cardLoading,        \* InspectionCard's loading
    feedback,
    cardVersion,        \* which InspectionCard is mounted: "swipe" or "buttons"
    timers,             \* setTimeout callbacks not yet run, with what they captured
    \* the mouse handlers of InspectionCard (the version with swipes)
    swipeState,         \* [startX, startY, currentX, currentY, isDragging]
    lastMouse,          \* the mouse event card-wrapper received last, "none" before any
    \* auth.users, the audit table, and who sent the INSERT of each test image
    auth_users,         \* ids of the rows of auth.users
    inspection_logs,
    uploadedBy,         \* test image id -> auth.uid() of the request that inserted it
    \* AdminPanel
    templates,          \* the template list as loaded
    adminLoading,
    adminFeedback,
    adminJwtRole        \* the role claim of the JWT of AdminPanel's session

cropVars == <<imageWidth, imageHeight, gridIndex, region, segments>>

viewerVars == <<testImage, masterImage, showDefectViewer, selectedSegment, loading,
                inFlight, croppedTestImage, croppedMasterImage>>

dbVars == <<golden_images, test_images, image_segments, defect_records>>

pipelineVars == <<pipelineState, job, segmentResults, result>>

cardVars == <<images, currentIndex, cardLoading, feedback, cardVersion, timers>>

authVars == <<auth_users, inspection_logs, uploadedBy>>

adminVars == <<templates, adminLoading, adminFeedback, adminJwtRole>>

swipeVars == <<swipeState, lastMouse>>

vars == <<cropVars, viewerVars, dbVars, pipelineVars, cardVars, authVars, adminVars,
          swipeVars>>

(***************************************************************************)
(* Bounds of the model.                                                    *)
(***************************************************************************)
\* largest image width / height handed to the cropper as an argument
MaxDim == 7
\* ticks in a third of a pixel: the resolution lengths are kept at
SubTicks == 4
\* most loadCroppedImages calls of one DefectViewer awaiting their crops at once
MaxInFlight == 2
\* most rows of test_images
MaxTestImages == 2
\* most rows of image_segments
MaxSegmentRows == 11
\* most rows of image_segments that clients insert themselves
MaxClientSegments == 2

(***************************************************************************)
(* Numbers.                                                                *)
(***************************************************************************)
gridSize == 3

TicksPerPixel == gridSize * SubTicks

\* an integer number of pixels as a length
Px(n) == n * TicksPerPixel

\* floor(log2(n)) for n >= 1
RECURSIVE Log2Floor(_)
Log2Floor(n) == IF n < 2 THEN 0 ELSE 1 + Log2Floor(n \div 2)

\* the binary exponent of the quotient n / 3: floor(log2(n / 3)), n >= 1
QuotientExponent(n) ==
    IF n = 1 THEN -2 ELSE IF n = 2 THEN -1 ELSE Log2Floor(n \div gridSize)

\* The sign of fl(n / 3) - n / 3 under round-to-nearest with a 53-bit
\* significand.  1/3 = 0.0101..b and 2/3 = 0.1010..b, so the first dropped bit
\* is decided by the remainder and by the parity of the quotient's exponent.
RoundingSign(n) ==
    LET r == n % gridSize
        odd == QuotientExponent(n) % 2 = 1
    IN  IF r = 0 THEN 0
        ELSE IF r = 1 THEN (IF odd THEN 1 ELSE -1)
        ELSE (IF odd THEN -1 ELSE 1)

\* imageWidth / gridSize as the double the division yields
DivByGridSize(n) == (Px(n) \div gridSize) + RoundingSign(n)

NoRegion == [x |-> -1, y |-> -1, width |-> -1, height |-> -1]

(***************************************************************************)
(* Variants of getGridSegmentRegion with one slip each.                    *)
(***************************************************************************)
\* every cell runs to the right / bottom edge, not only the last one
getGridSegmentRegion_alwaysToEdge(w, h, idx) ==
    LET segmentWidth == DivByGridSize(w)
        segmentHeight == DivByGridSize(h)
        row == idx \div gridSize
        col == idx % gridSize
        x == col * segmentWidth
        y == row * segmentHeight
    IN  [x |-> x, y |-> y, width |-> Px(w) - x, height |-> Px(h) - y]

\* the last column / row takes the segment size like the others
getGridSegmentRegion_noRemainder(w, h, idx) ==
    LET segmentWidth == DivByGridSize(w)
        segmentHeight == DivByGridSize(h)
        row == idx \div gridSize
        col == idx % gridSize
    IN  [x |-> col * segmentWidth, y |-> row * segmentHeight,
         width |-> segmentWidth, height |-> segmentHeight]

\* row and column taken the other way round
getGridSegmentRegion_columnMajor(w, h, idx) ==
    LET segmentWidth == DivByGridSize(w)
        segmentHeight == DivByGridSize(h)
        row == idx % gridSize
        col == idx \div gridSize
        x == col * segmentWidth
        y == row * segmentHeight
        width == IF col = gridSize - 1 THEN Px(w) - x ELSE segmentWidth
        height == IF row = gridSize - 1 THEN Px(h) - y ELSE segmentHeight
    IN  [x |-> x, y |-> y, width |-> width, height |-> height]

\* the remainder computed from the segment size instead of the cell's origin
getGridSegmentRegion_remainderFromSegment(w, h, idx) ==
    LET segmentWidth == DivByGridSize(w)
        segmentHeight == DivByGridSize(h)
        row == idx \div gridSize
        col == idx % gridSize
        x == col * segmentWidth
        y == row * segmentHeight
        width == IF col = gridSize - 1 THEN Px(w) - segmentWidth ELSE segmentWidth
        height == IF row = gridSize - 1 THEN Px(h) - segmentHeight ELSE segmentHeight
    IN  [x |-> x, y |-> y, width |-> width, height |-> height]

(***************************************************************************)
(* ImageCropper.getGridSegmentRegion and getAllGridSegments.               *)
(***************************************************************************)
getGridSegmentRegion(w, h, idx) ==
    LET segmentWidth == DivByGridSize(w)
        segmentHeight == DivByGridSize(h)
        row == idx \div gridSize
        col == idx % gridSize
        x == col * segmentWidth
        y == row * segmentHeight
        width == IF col = gridSize - 1 THEN Px(w) - x ELSE segmentWidth
        height == IF row = gridSize - 1 THEN Px(h) - y ELSE segmentHeight
    IN  [x |-> x, y |-> y, width |-> width, height |-> height]

\* Array.from({ length: 9 }, (_, i) => getGridSegmentRegion(w, h, i)); element i
\* of the array is element i + 1 of the sequence
getAllGridSegments(w, h) ==
    [k \in 1..9 |-> getGridSegmentRegion(w, h, k - 1)]

(***************************************************************************)
(* DefectViewer (components/DefectViewer.tsx) as InspectionCard mounts it. *)
(***************************************************************************)
\* the defaults of the props imageWidth and imageHeight; both InspectionCard
\* versions mount DefectViewer without these props, so the defaults are the values
DefaultImageWidth == 800
DefaultImageHeight == 600

\* sizes the images behind the two URLs can have: the default size, half of it,
\* double, and the default size turned upright
ImageSizes ==
    {[width |-> DefaultImageWidth \div 2, height |-> DefaultImageHeight \div 2],
     [width |-> DefaultImageWidth, height |-> DefaultImageHeight],
     [width |-> 2 * DefaultImageWidth, height |-> 2 * DefaultImageHeight],
     [width |-> DefaultImageHeight, height |-> DefaultImageWidth]}

NoCrop == [url |-> "", region |-> NoRegion, gridIndex |-> -1]

\* ImageCropper.cropAndStoreDefect: the region is computed from the dimensions it
\* is given, and that region of the image at the URL is cropped
cropAndStoreDefect(url, idx, w, h) ==
    [url |-> url, region |-> getGridSegmentRegion(w, h, idx), gridIndex |-> idx]

\* the master image cropped with width and height exchanged
loadCroppedImages_swappedDims(idx) ==
    [gridIndex |-> idx,
     testCrop |-> cropAndStoreDefect("testImageUrl", idx,
                                     DefaultImageWidth, DefaultImageHeight),
     masterCrop |-> cropAndStoreDefect("masterImageUrl", idx,
                                       DefaultImageHeight, DefaultImageWidth)]

\* loadCroppedImages up to its await: the two crops it asks for
loadCroppedImages(idx) ==
    [gridIndex |-> idx,
     testCrop |-> cropAndStoreDefect("testImageUrl", idx,
                                     DefaultImageWidth, DefaultImageHeight),
     masterCrop |-> cropAndStoreDefect("masterImageUrl", idx,
                                       DefaultImageWidth, DefaultImageHeight)]

ViewerClosed ==
    /\ showDefectViewer = FALSE
    /\ selectedSegment = -1
    /\ loading = FALSE
    /\ inFlight = {}
    /\ croppedTestImage = NoCrop
    /\ croppedMasterImage = NoCrop

\* InspectionCard: onClick={() => setShowDefectViewer(true)}; DefectViewer mounts
\* with its initial state
ExamineDefects ==
    /\ ~showDefectViewer
    /\ showDefectViewer' = TRUE
    /\ UNCHANGED <<testImage, masterImage, selectedSegment, loading, inFlight,
                   croppedTestImage, croppedMasterImage>>

\* onClose: DefectViewer unmounts, its state is dropped and crops still under way
\* no longer reach any state
CloseViewer ==
    /\ showDefectViewer
    /\ showDefectViewer' = FALSE
    /\ selectedSegment' = -1
    /\ loading' = FALSE
    /\ inFlight' = {}
    /\ croppedTestImage' = NoCrop
    /\ croppedMasterImage' = NoCrop
    /\ UNCHANGED <<testImage, masterImage>>

\* a segment button is clicked: setSelectedSegment, and the effect on
\* [selectedSegment] runs loadCroppedImages up to its await
SelectSegment ==
    \E idx \in 0..8 :
        /\ showDefectViewer
        /\ idx # selectedSegment
        /\ Cardinality(inFlight \cup {loadCroppedImages(idx)}) <= MaxInFlight
        /\ selectedSegment' = idx
        /\ loading' = TRUE
        /\ inFlight' = inFlight \cup {loadCroppedImages(idx)}
        /\ UNCHANGED <<testImage, masterImage, showDefectViewer,
                       croppedTestImage, croppedMasterImage>>

\* Promise.all resolved: both crops are stored, then finally
CropsLoaded ==
    \E load \in inFlight :
        /\ croppedTestImage' = load.testCrop
        /\ croppedMasterImage' = load.masterCrop
        /\ loading' = FALSE
        /\ inFlight' = inFlight \ {load}
        /\ UNCHANGED <<testImage, masterImage, showDefectViewer, selectedSegment>>

\* a crop rejected (the image failed to load, no canvas context): catch, finally
CropsFailed ==
    \E load \in inFlight :
        /\ loading' = FALSE
        /\ inFlight' = inFlight \ {load}
        /\ UNCHANGED <<testImage, masterImage, showDefectViewer, selectedSegment,
                       croppedTestImage, croppedMasterImage>>

(***************************************************************************)
(* The analysis pipeline.  Its code (Modular_inspection/, the process-image*)
(* function) is not among the sources; it is modelled from the design      *)
(* document, sections 4.3 to 4.6.  Scores are kept in thousandths.         *)
(***************************************************************************)
\* SSIM pass threshold 0.975, in thousandths
SsimThreshold == 975
\* anomalous-pixel-count threshold
CountThreshold == 1000

\* measurements a segment pair can give: at the threshold and just above it
SsimSamples == {SsimThreshold, SsimThreshold + 1}
PixelCountSamples == {CountThreshold, CountThreshold + 1}

\* both thresholds taken as inclusive
scoreSegment_inclusive(idx, ssim, anomalousPixels) ==
    IF ssim >= SsimThreshold
    THEN [segment_index |-> idx, ssim_score |-> ssim, stage |-> 1,
          anomalous_pixels |-> 0, anomaly_detected |-> FALSE, verdict |-> "NORMAL"]
    ELSE [segment_index |-> idx, ssim_score |-> ssim, stage |-> 2,
          anomalous_pixels |-> anomalousPixels,
          anomaly_detected |-> (anomalousPixels >= CountThreshold),
          verdict |-> IF anomalousPixels >= CountThreshold THEN "DEFECT" ELSE "NORMAL"]

\* Stage 1, and Stage 2 for a segment Stage 1 does not pass.  pixel_diff_score is
\* 100 * anomalous_pixels / pixels of the segment; the count itself is kept.
scoreSegment(idx, ssim, anomalousPixels) ==
    IF ssim > SsimThreshold
    THEN [segment_index |-> idx, ssim_score |-> ssim, stage |-> 1,
          anomalous_pixels |-> 0, anomaly_detected |-> FALSE, verdict |-> "NORMAL"]
    ELSE [segment_index |-> idx, ssim_score |-> ssim, stage |-> 2,
          anomalous_pixels |-> anomalousPixels,
          anomaly_detected |-> (anomalousPixels > CountThreshold),
          verdict |-> IF anomalousPixels > CountThreshold THEN "DEFECT" ELSE "NORMAL"]

\* Aggregator: aggregate(segments); defect_locations ascending, as the segments are
aggregate(segs) ==
    LET flagged == SelectSeq(segs, LAMBDA sr : sr.anomaly_detected)
        locations == [k \in 1..Len(flagged) |-> flagged[k].segment_index]
    IN  [segments |-> segs,
         anomaly_count |-> Len(locations),
         verdict |-> IF Len(locations) > 0 THEN "DEFECT" ELSE "NORMAL",
         defect_locations |-> locations]

\* a golden_images row: its key and its name
goldenImage(id, name) == [id |-> id, name |-> name]

\* detected_defects jsonb DEFAULT '{}'
EmptyJson == [segments |-> <<>>]

\* a test image as inserted on upload, with the column defaults
uploadedTestImage(id, golden) ==
    [id |-> id, golden_image_id |-> golden, upload_timestamp |-> id,
     processed |-> FALSE, detected_defects |-> EmptyJson]

NoResult == [segments |-> <<>>, anomaly_count |-> -1, verdict |-> "",
             defect_locations |-> <<>>]

NonTerminal == {"ALIGNING", "SEGMENTING", "SCORING", "AGGREGATING"}

\* segment_image_path of a row a client inserts, and of a row the pipeline writes
ClientPath == "client"
PipelinePath == "segments"

\* what the collaborator writes for a finished analysis: the test image's record
\* and one image_segments row per SegmentResult
persistedTestImage(t, ar) ==
    [t EXCEPT !.processed = TRUE, !.detected_defects = ar]

FreshSegmentId == 1 + Cardinality(image_segments)

\* the value 1 of ssim_score and confidence, which are kept in thousandths
One == 1000

\* pixels of one segment of an image of the default size
SegmentPixels ==
    (DefaultImageWidth \div gridSize) * (DefaultImageHeight \div gridSize)

Clamp(v, lo, hi) == IF v < lo THEN lo ELSE IF v > hi THEN hi ELSE v

\* pixel_diff_score = 100 * anomalous_pixel_count / total_pixels_in_segment,
\* clamped to [0,100]; 0 for a segment resolved at Stage 1
pixelDiffScore(sr) == Clamp((100 * sr.anomalous_pixels) \div SegmentPixels, 0, 100)

\* confidence: ssim_score at Stage 1, the distance of the count from the
\* threshold mapped into [0,1] at Stage 2
confidenceOf(sr) ==
    IF sr.stage = 1 THEN Clamp(sr.ssim_score, 0, One)
    ELSE Clamp(IF sr.anomalous_pixels > CountThreshold
               THEN sr.anomalous_pixels - CountThreshold
               ELSE CountThreshold - sr.anomalous_pixels, 0, One)

persistedSegments(t, ar) ==
    {[id |-> FreshSegmentId + k - 1,
      test_image_id |-> t.id,
      golden_image_id |-> t.golden_image_id,
      segment_index |-> ar.segments[k].segment_index,
      segment_image_path |-> PipelinePath,
      ssim_score |-> ar.segments[k].ssim_score,
      pixel_diff_score |-> pixelDiffScore(ar.segments[k]),
      anomaly_detected |-> ar.segments[k].anomaly_detected,
      confidence |-> confidenceOf(ar.segments[k])] : k \in 1..Len(ar.segments)}

PipelineIdle ==
    /\ pipelineState = "PENDING"
    /\ job = 0
    /\ segmentResults = <<>>
    /\ result = NoResult

\* analyze is triggered for a test image not yet processed
StartAnalysis ==
    \E t \in test_images :
        /\ pipelineState = "PENDING"
        /\ ~t.processed
        /\ pipelineState' = "ALIGNING"
        /\ job' = t.id
        /\ UNCHANGED <<segmentResults, result, dbVars>>

\* the Aligner registers the test image: on to the GridPartitioner
AlignOk ==
    /\ pipelineState = "ALIGNING"
    /\ pipelineState' = "SEGMENTING"
    /\ UNCHANGED <<job, segmentResults, result, dbVars>>

SegmentOk ==
    /\ pipelineState = "SEGMENTING"
    /\ pipelineState' = "SCORING"
    /\ segmentResults' = <<>>
    /\ UNCHANGED <<job, result, dbVars>>

\* the next segment pair is measured and scored into its slot
ScoreNextSegment ==
    \E ssim \in SsimSamples, count \in PixelCountSamples :
        /\ pipelineState = "SCORING"
        /\ Len(segmentResults) < 9
        /\ segmentResults' =
              Append(segmentResults, scoreSegment(Len(segmentResults), ssim, count))
        /\ UNCHANGED <<pipelineState, job, result, dbVars>>

AllScored ==
    /\ pipelineState = "SCORING"
    /\ Len(segmentResults) = 9
    /\ pipelineState' = "AGGREGATING"
    /\ result' = aggregate(segmentResults)
    /\ UNCHANGED <<job, segmentResults, dbVars>>

\* the result record is handed over and persisted: the test image's record and
\* the 9 segment rows, all or none
PersistResult ==
    \E t \in test_images :
        /\ pipelineState = "AGGREGATING"
        /\ t.id = job
        /\ pipelineState' = "PROCESSED"
        /\ test_images' = (test_images \ {t}) \cup {persistedTestImage(t, result)}
        /\ image_segments' = image_segments \cup persistedSegments(t, result)
        /\ UNCHANGED <<job, segmentResults, result, golden_images, defect_records>>

\* AlignmentError, or malformed input at any stage: nothing is persisted
PipelineFails ==
    /\ pipelineState \in NonTerminal
    /\ pipelineState' = "FAILED"
    /\ segmentResults' = <<>>
    /\ result' = NoResult
    /\ UNCHANGED <<job, dbVars>>

\* the caller runs the analysis again after a failure
RetryAnalysis ==
    /\ pipelineState = "FAILED"
    /\ pipelineState' = "PENDING"
    /\ job' = 0
    /\ UNCHANGED <<segmentResults, result, dbVars>>

(***************************************************************************)
(* InspectionCard (components/InspectionCard.tsx, the version with         *)
(* decision buttons): loading the queue and rendering the current image.   *)
(***************************************************************************)
\* .limit(50)
QueueLimit == 50

\* .order('upload_timestamp', { ascending: false })
RECURSIVE OrderByUploadDesc(_)
OrderByUploadDesc(rows) ==
    IF rows = {} THEN <<>>
    ELSE LET first == CHOOSE r \in rows :
                          \A q \in rows : q.upload_timestamp <= r.upload_timestamp
         IN  <<first>> \o OrderByUploadDesc(rows \ {first})

Limit(s, n) == SubSeq(s, 1, IF Len(s) < n THEN Len(s) ELSE n)

\* .limit(20) of the version with swipes
SwipeQueueLimit == 20

\* the limit of the mounted version
queueLimit == IF cardVersion = "swipe" THEN SwipeQueueLimit ELSE QueueLimit

\* the first query of loadPendingImages
processedImages ==
    Limit(OrderByUploadDesc({t \in test_images : t.processed}), queueLimit)

\* the second query; its error is not looked at, and without data the set is empty
reviewedIds(recordsOk) ==
    IF recordsOk THEN {r.test_image_id : r \in defect_records} ELSE {}

\* useState<SwipeState>({ startX: 0, startY: 0, currentX: 0, currentY: 0,
\* isDragging: false })
initialSwipeState ==
    [startX |-> 0, startY |-> 0, currentX |-> 0, currentY |-> 0,
     isDragging |-> FALSE]

CardMountedAs(version) ==
    /\ swipeState = initialSwipeState
    /\ lastMouse = "none"
    /\ images = <<>>
    /\ currentIndex = 0
    /\ cardLoading = TRUE
    /\ feedback = ""
    /\ cardVersion = version
    /\ timers = {}

CardMounted == CardMountedAs("buttons")

\* what loadPendingImages sets when its first query is answered
queueLoaded(recordsOk) ==
    /\ images' = SelectSeq(processedImages,
                           LAMBDA img : img.id \notin reviewedIds(recordsOk))
    /\ currentIndex' = 0
    /\ cardLoading' = FALSE

\* loadPendingImages, both queries answered: called by the effect on mount and by
\* the button of the empty state
LoadPendingImages ==
    \E recordsOk \in BOOLEAN :
        /\ cardLoading \/ images = <<>>
        /\ queueLoaded(recordsOk)
        /\ UNCHANGED <<feedback, cardVersion, timers>>

\* loadPendingImages, the first query in error
LoadPendingImagesFails ==
    /\ cardLoading \/ images = <<>>
    /\ feedback' = "Failed to load images"
    /\ cardLoading' = FALSE
    /\ UNCHANGED <<images, currentIndex, cardVersion, timers>>

\* the AnalysisResult rendered: currentImage.detected_defects, once loading is
\* over and the queue is not empty
analysisResultShown ==
    IF ~cardLoading /\ currentIndex < Len(images)
    THEN {images[currentIndex + 1].detected_defects}
    ELSE {}

\* the value of the metric "Anomaly Count"
shownAnomalyCount(ar) == ar.anomaly_count

\* the cells that get the class 'anomaly': includes(idx) off by one, as the
\* titles 'Region idx + 1' are
highlightedCells_fromOne(ar) ==
    {idx \in 0..8 : \E k \in 1..Len(ar.defect_locations) :
                        ar.defect_locations[k] = idx + 1}

\* the cells of the grid visualization that get the class 'anomaly'
highlightedCells(ar) ==
    {idx \in 0..8 : \E k \in 1..Len(ar.defect_locations) :
                        ar.defect_locations[k] = idx}

(***************************************************************************)
(* The database of the migration: what a request may do under the tables'  *)
(* constraints and row-level-security policies.  A request runs as the     *)
(* Postgres role anon or authenticated.                                    *)
(***************************************************************************)
PgRoles == {"anon", "authenticated"}

\* analysis results of two sample images: no anomaly, and one in the centre cell
sampleResultNormal ==
    aggregate([k \in 1..9 |-> scoreSegment(k - 1, SsimThreshold + 1, 0)])
sampleResultDefect ==
    aggregate([k \in 1..9 |->
        IF k = 5 THEN scoreSegment(k - 1, SsimThreshold, CountThreshold + 1)
                 ELSE scoreSegment(k - 1, SsimThreshold + 1, 0)])

\* jsonb values a client sends for detected_defects
JsonSamples == {EmptyJson, sampleResultDefect}

\* values a client sends for segment_index: the ends of the range and beyond
SegmentIndexSamples == {-1, 0, 8, 9}

FreshTestImageId == 1 + Cardinality(test_images)

\* policy "Authenticated users can insert test images": TO authenticated
\* WITH CHECK (true)
mayInsertTestImage(pgRole) == pgRole = "authenticated"

\* policy "Users can update their own test images": TO authenticated USING (true)
\* WITH CHECK (true)
mayUpdateTestImage(pgRole, t) == pgRole = "authenticated"

\* policy "Authenticated users can insert image segments": TO authenticated
\* WITH CHECK (true)
mayInsertImageSegment(pgRole) == pgRole = "authenticated"

\* values a client sends for ssim_score, pixel_diff_score and confidence: the
\* column default and a value beyond the range
SsimScoreSamples == {0, One + 1}
PixelDiffScoreSamples == {0, 101}
ConfidenceSamples == {-1, 0, One + 1}

\* the constraints of image_segments on a new row: the CHECKs on segment_index
\* and confidence, and the two foreign keys; ssim_score and pixel_diff_score
\* carry no CHECK; id is the only key
imageSegmentAccepted(row) ==
    /\ row.segment_index >= 0 /\ row.segment_index <= 8
    /\ row.confidence >= 0 /\ row.confidence <= One
    /\ \E t \in test_images : t.id = row.test_image_id
    /\ \E g \in golden_images : g.id = row.golden_image_id

\* INSERT INTO test_images by the user uid: processed and detected_defects as
\* sent, or defaulted
InsertTestImage ==
    \E pgRole \in PgRoles, uid \in auth_users, golden \in {1, 2},
       processed \in BOOLEAN, json \in JsonSamples :
        /\ Cardinality(test_images) < MaxTestImages
        /\ mayInsertTestImage(pgRole)
        /\ \E g \in golden_images : g.id = golden
        /\ test_images' = test_images \cup
              {[uploadedTestImage(FreshTestImageId, golden)
                    EXCEPT !.processed = processed, !.detected_defects = json]}
        /\ uploadedBy' = uploadedBy \cup {<<FreshTestImageId, uid>>}
        /\ UNCHANGED <<golden_images, image_segments, defect_records,
                       auth_users, inspection_logs>>

\* UPDATE test_images SET processed = .., detected_defects = .. WHERE id = ..,
\* sent by the user uid
UpdateTestImageAs(uid, pgRole, t, processed, json) ==
    /\ mayUpdateTestImage(pgRole, t)
    /\ test_images' = (test_images \ {t}) \cup
          {[t EXCEPT !.processed = processed, !.detected_defects = json]}
    /\ UNCHANGED <<golden_images, image_segments, defect_records>>

UpdateTestImage ==
    \E uid \in auth_users, pgRole \in PgRoles, t \in test_images,
       processed \in BOOLEAN, json \in JsonSamples :
        UpdateTestImageAs(uid, pgRole, t, processed, json)

\* INSERT INTO image_segments, anomaly_detected left to its default
InsertImageSegment ==
    \E pgRole \in PgRoles, test \in 1..MaxTestImages, golden \in {1, 2},
       idx \in SegmentIndexSamples, ssim \in SsimScoreSamples,
       pixelDiff \in PixelDiffScoreSamples, conf \in ConfidenceSamples :
        LET row == [id |-> FreshSegmentId, test_image_id |-> test,
                    golden_image_id |-> golden, segment_index |-> idx,
                    segment_image_path |-> ClientPath,
                    ssim_score |-> ssim, pixel_diff_score |-> pixelDiff,
                    anomaly_detected |-> FALSE, confidence |-> conf]
        IN  /\ Cardinality(image_segments) < MaxSegmentRows
            /\ Cardinality({r \in image_segments : r.segment_image_path = ClientPath})
                  < MaxClientSegments
            /\ mayInsertImageSegment(pgRole)
            /\ imageSegmentAccepted(row)
            /\ image_segments' = image_segments \cup {row}
            /\ UNCHANGED <<golden_images, test_images, defect_records>>

\* analyze run on an unprocessed test image to its end, and its result persisted
AnalyzeAndPersist ==
    \E t \in test_images, ar \in {sampleResultNormal, sampleResultDefect} :
        /\ ~t.processed
        /\ Cardinality(image_segments) + 9 <= MaxSegmentRows
        /\ test_images' = (test_images \ {t}) \cup {persistedTestImage(t, ar)}
        /\ image_segments' = image_segments \cup persistedSegments(t, ar)
        /\ UNCHANGED <<golden_images, defect_records>>

(***************************************************************************)
(* golden_images under its policies, and AdminPanel (unnamed/part_000).    *)
(* The policies of golden_images name no role, so they apply to every      *)
(* request; they look at the role claim of the request's JWT.              *)
(***************************************************************************)
MaxTemplates == 3

\* the role claim of a request's JWT
JwtRoles == {"anon", "authenticated", "admin"}

\* names an administrator types for a template
TemplateNames == {"A", "B"}

FreshGoldenId == 1 + Cardinality(golden_images)

\* a policy that lets every request insert
mayInsertGoldenImage_anyone(jwtRole) == TRUE

\* policy "Only admins can insert golden images"
mayInsertGoldenImage(jwtRole) == jwtRole = "admin"

\* policy "Only admins can update golden images": USING and WITH CHECK
mayUpdateGoldenImage(jwtRole, g) == jwtRole = "admin"

\* row-level security is enabled and golden_images has no policy FOR DELETE: no
\* row is visible to a DELETE, whoever sends it
mayDeleteGoldenImage(jwtRole, g) == FALSE

\* INSERT INTO golden_images: a request the policy rejects is an error and
\* changes nothing
InsertGoldenImageAs(jwtRole, name) ==
    /\ Cardinality(golden_images) < MaxTemplates
    /\ golden_images' =
          IF mayInsertGoldenImage(jwtRole)
          THEN golden_images \cup {goldenImage(FreshGoldenId, name)}
          ELSE golden_images
    /\ UNCHANGED <<test_images, image_segments, defect_records>>

InsertGoldenImage ==
    \E jwtRole \in JwtRoles, name \in TemplateNames : InsertGoldenImageAs(jwtRole, name)

\* UPDATE golden_images SET name = .. WHERE id = ..: rows the policy hides are
\* not updated, without an error
UpdateGoldenImageAs(jwtRole, id, name) ==
    /\ golden_images' =
          {IF g.id = id /\ mayUpdateGoldenImage(jwtRole, g)
           THEN [g EXCEPT !.name = name] ELSE g : g \in golden_images}
    /\ UNCHANGED <<test_images, image_segments, defect_records>>

UpdateGoldenImage ==
    \E jwtRole \in JwtRoles, id \in 1..MaxTemplates, name \in TemplateNames :
        UpdateGoldenImageAs(jwtRole, id, name)

\* .order('created_at', { ascending: false }): ids grow with created_at
RECURSIVE OrderByCreatedDesc(_)
OrderByCreatedDesc(rows) ==
    IF rows = {} THEN <<>>
    ELSE LET first == CHOOSE r \in rows : \A q \in rows : q.id <= r.id
         IN  <<first>> \o OrderByCreatedDesc(rows \ {first})

\* what loadTemplates leaves in the component's state: the rows it read, or
\* the feedback of its catch; fb is the feedback before the call
templatesLoaded(rows, ok, fb) ==
    [templates |-> IF ok THEN OrderByCreatedDesc(rows) ELSE templates,
     adminFeedback |-> IF ok THEN fb ELSE "Failed to load templates"]

\* loadTemplates, called by the effect on mount
loadTemplates ==
    \E ok \in BOOLEAN :
        /\ adminLoading
        /\ templates' = templatesLoaded(golden_images, ok, adminFeedback).templates
        /\ adminFeedback' = templatesLoaded(golden_images, ok, adminFeedback).adminFeedback
        /\ adminLoading' = FALSE
        /\ UNCHANGED <<adminJwtRole, dbVars>>

\* handleUpload: the form, the storage upload, the insert, then loadTemplates
handleUpload ==
    \E name \in TemplateNames, filled \in BOOLEAN, stored \in BOOLEAN, loadOk \in BOOLEAN :
        /\ ~adminLoading
        /\ Cardinality(golden_images) < MaxTemplates
        /\ IF ~filled
           THEN /\ adminFeedback' = "Please fill in all fields"
                /\ UNCHANGED <<templates, golden_images>>
           ELSE IF ~stored \/ ~mayInsertGoldenImage(adminJwtRole)
           THEN /\ adminFeedback' = "Upload failed. Please try again."
                /\ UNCHANGED <<templates, golden_images>>
           ELSE LET rows == golden_images \cup {goldenImage(FreshGoldenId, name)}
                    loaded == templatesLoaded(rows, loadOk,
                                              "Template uploaded successfully!")
                IN  /\ golden_images' = rows
                    /\ templates' = loaded.templates
                    /\ adminFeedback' = loaded.adminFeedback
        /\ UNCHANGED <<adminLoading, adminJwtRole, test_images, image_segments,
                       defect_records>>

\* the rows DELETE FROM golden_images WHERE id = .. removes
deletedTemplates(jwtRole, id) ==
    {g \in golden_images : g.id = id /\ mayDeleteGoldenImage(jwtRole, g)}

\* handleDelete(id) confirmed: the delete, its feedback, then loadTemplates.  A
\* DELETE that matches no visible row is not an error.  Deleted templates take
\* their test images, segments and decisions with them (ON DELETE CASCADE).
handleDeleteOf(id) ==
    \E requestOk \in BOOLEAN, loadOk \in BOOLEAN :
        /\ ~adminLoading
        /\ \E k \in 1..Len(templates) : templates[k].id = id
        /\ IF ~requestOk
           THEN /\ adminFeedback' = "Failed to delete template"
                /\ UNCHANGED <<templates, dbVars>>
           ELSE LET gone == {g.id : g \in deletedTemplates(adminJwtRole, id)}
                    rows == {g \in golden_images : g.id \notin gone}
                    tests == {t \in test_images : t.golden_image_id \notin gone}
                    loaded == templatesLoaded(rows, loadOk,
                                              "Template deleted successfully")
                IN  /\ golden_images' = rows
                    /\ test_images' = tests
                    /\ image_segments' =
                          {r \in image_segments :
                               /\ r.golden_image_id \notin gone
                               /\ \E t \in tests : t.id = r.test_image_id}
                    /\ defect_records' =
                          {r \in defect_records : \E t \in tests : t.id = r.test_image_id}
                    /\ templates' = loaded.templates
                    /\ adminFeedback' = loaded.adminFeedback
        /\ UNCHANGED <<adminLoading, adminJwtRole>>

handleDelete == \E id \in 1..MaxTemplates : handleDeleteOf(id)

(***************************************************************************)
(* inspection_logs under its policies, and auth.users.  A request of the   *)
(* role authenticated carries the id of its user, auth.uid().              *)
(***************************************************************************)
MaxUsers == 2
MaxLogs == 3

\* user_id NULL
NoUser == 0

FreshLogId == 1 + Cardinality(inspection_logs)

\* an inspection_logs row
inspectionLog(id, userId, action) == [id |-> id, user_id |-> userId, action |-> action]

\* values of the action column
LogActions == {"upload", "inspect"}

\* a policy WITH CHECK (true)
mayInsertInspectionLog_anyUser(pgRole, uid, row) == pgRole = "authenticated"

\* policy "System can insert inspection logs": TO authenticated
\* WITH CHECK (user_id = auth.uid()); NULL = auth.uid() is not true
mayInsertInspectionLog(pgRole, uid, row) ==
    /\ pgRole = "authenticated"
    /\ row.user_id # NoUser
    /\ row.user_id = uid

\* policy "Users can view their own logs": TO authenticated
\* USING (user_id = auth.uid())
maySelectInspectionLog(pgRole, uid, row) ==
    /\ pgRole = "authenticated"
    /\ row.user_id # NoUser
    /\ row.user_id = uid

\* inspection_logs has no policy FOR UPDATE and none FOR DELETE
mayUpdateInspectionLog(pgRole, uid, row) == FALSE
mayDeleteInspectionLog(pgRole, uid, row) == FALSE

\* SELECT * FROM inspection_logs as the user uid, from the rows given
visibleLogs(rows, uid) ==
    {l \in rows : maySelectInspectionLog("authenticated", uid, l)}

\* INSERT INTO inspection_logs (user_id, action) by the user uid; user_id
\* REFERENCES auth.users(id)
InsertInspectionLogAs(pgRole, uid, userId, action) ==
    LET row == inspectionLog(FreshLogId, userId, action)
    IN  /\ Cardinality(inspection_logs) < MaxLogs
        /\ uid \in auth_users
        /\ inspection_logs' =
              IF /\ mayInsertInspectionLog(pgRole, uid, row)
                 /\ userId \in auth_users \cup {NoUser}
              THEN inspection_logs \cup {row}
              ELSE inspection_logs
        /\ UNCHANGED <<auth_users, uploadedBy>>

InsertInspectionLog ==
    \E pgRole \in PgRoles, uid \in 1..MaxUsers, userId \in 0..MaxUsers,
       action \in LogActions :
        InsertInspectionLogAs(pgRole, uid, userId, action)

\* UPDATE inspection_logs SET action = .. WHERE id = ..
UpdateInspectionLog ==
    \E pgRole \in PgRoles, uid \in auth_users, id \in 1..MaxLogs :
        /\ inspection_logs' =
              {IF l.id = id /\ mayUpdateInspectionLog(pgRole, uid, l)
               THEN [l EXCEPT !.action = "edited"] ELSE l : l \in inspection_logs}
        /\ UNCHANGED <<auth_users, uploadedBy>>

\* DELETE FROM inspection_logs WHERE id = ..
DeleteInspectionLog ==
    \E pgRole \in PgRoles, uid \in auth_users, id \in 1..MaxLogs :
        /\ inspection_logs' =
              {l \in inspection_logs :
                   ~(l.id = id /\ mayDeleteInspectionLog(pgRole, uid, l))}
        /\ UNCHANGED <<auth_users, uploadedBy>>

\* a row of auth.users is deleted: user_id ... ON DELETE SET NULL
DeleteAuthUser ==
    \E uid \in auth_users :
        /\ auth_users' = auth_users \ {uid}
        /\ inspection_logs' =
              {IF l.user_id = uid THEN [l EXCEPT !.user_id = NoUser] ELSE l :
                   l \in inspection_logs}
        /\ UNCHANGED uploadedBy

(***************************************************************************)
(* defect_records and the decisions of both versions of InspectionCard.    *)
(* The notes field is left empty, so the version with buttons sends null.  *)
(***************************************************************************)
MaxTimers == 1
MaxRecordsPerImage == 1
MaxClientRecords == 1

\* NULL in a text column
Null == "NULL"

Directions == {"left", "right", "up"}
Decisions == {"accept", "reject", "review_later"}

\* what a client sends for user_decision, swipe_direction and notes
DecisionSamples == {"accept", "maybe"}
DirectionSamples == {"left", "down"}
ClientNotes == "client"
\* the test image a client's row names: the oldest one, and one that does not exist
TestImageSamples == {0, 1}

FreshRecordId == 1 + Cardinality(defect_records)

defectRecord(id, test, decision, direction, notes) ==
    [id |-> id, test_image_id |-> test, user_decision |-> decision,
     swipe_direction |-> direction, notes |-> notes]

\* policy "Authenticated users can create defect records": TO authenticated
\* WITH CHECK (true)
mayInsertDefectRecord(pgRole) == pgRole = "authenticated"

\* the constraints of defect_records on a new row: the CHECKs on user_decision
\* and swipe_direction (a NULL passes a CHECK), and the foreign key
defectRecordAccepted(row) ==
    /\ row.user_decision \in Decisions
    /\ row.swipe_direction = Null \/ row.swipe_direction \in Directions
    /\ \E t \in test_images : t.id = row.test_image_id

\* INSERT INTO defect_records sent by a client directly
InsertDefectRecord ==
    \E pgRole \in PgRoles, test \in TestImageSamples,
       decision \in DecisionSamples, direction \in DirectionSamples :
        LET row == defectRecord(FreshRecordId, test, decision, direction, ClientNotes)
        IN  /\ Cardinality({r \in defect_records : r.notes = ClientNotes})
                  < MaxClientRecords
            /\ defect_records' =
                  IF mayInsertDefectRecord(pgRole) /\ defectRecordAccepted(row)
                  THEN defect_records \cup {row}
                  ELSE defect_records
            /\ UNCHANGED <<golden_images, test_images, image_segments>>

\* left accepts and right rejects
decisionOf_leftAccepts(direction) ==
    IF direction = "left" THEN "accept"
    ELSE IF direction = "right" THEN "reject" ELSE "review_later"

\* handleSwipe: direction === 'right' ? 'accept' : direction === 'left' ?
\* 'reject' : 'review_later'
decisionOf(direction) ==
    IF direction = "right" THEN "accept"
    ELSE IF direction = "left" THEN "reject" ELSE "review_later"

\* `Marked as ${decision}`
markedAs(decision) ==
    IF decision = "accept" THEN "Marked as accept"
    ELSE IF decision = "reject" THEN "Marked as reject"
    ELSE "Marked as review_later"

\* `Inspection result recorded: ${decision.replace('_', ' ')}`
recordedAs(decision) ==
    IF decision = "accept" THEN "Inspection result recorded: accept"
    ELSE IF decision = "reject" THEN "Inspection result recorded: reject"
    ELSE "Inspection result recorded: review later"

\* the image on display: images[currentIndex], when the card shows one
hasCurrentImage == ~cardLoading /\ currentIndex < Len(images)
currentImage == images[currentIndex + 1]

recordsOf(id) == {r \in defect_records : r.test_image_id = id}

\* the callback handed to setTimeout keeps the currentIndex and images.length
\* of the render that ran the handler
timerOf(index, length) == [currentIndex |-> index, length |-> length]

\* the insert of a decision, shared by handleSwipe and handleDecision: on an
\* error the catch sets errorFeedback, else the row is stored, the feedback
\* set and the timeout started
decisionStored(decision, direction, okFeedback, errorFeedback) ==
    \E requestOk \in BOOLEAN :
        LET row == defectRecord(FreshRecordId, currentImage.id, decision,
                                direction, Null)
        IN  /\ hasCurrentImage
            /\ Cardinality(recordsOf(currentImage.id)) < MaxRecordsPerImage
            /\ Cardinality(timers) < MaxTimers
            /\ IF requestOk /\ defectRecordAccepted(row)
               THEN /\ defect_records' = defect_records \cup {row}
                    /\ feedback' = okFeedback
                    /\ timers' = timers \cup {timerOf(currentIndex, Len(images))}
               ELSE /\ feedback' = errorFeedback
                    /\ UNCHANGED <<defect_records, timers>>
            /\ UNCHANGED <<images, currentIndex, cardLoading, cardVersion,
                           golden_images, test_images, image_segments>>

\* handleSwipe(direction), of the version with swipes
handleSwipeOf(direction) ==
    /\ cardVersion = "swipe"
    /\ decisionStored(decisionOf(direction), direction,
                      markedAs(decisionOf(direction)), "Error saving decision")

handleSwipe == \E direction \in Directions : handleSwipeOf(direction)

\* handleDecision(decision), of the version with buttons; processing is false
\* again when the handler ends
handleDecisionOf(decision) ==
    /\ cardVersion = "buttons"
    /\ decisionStored(decision, Null, recordedAs(decision),
                      "Error recording inspection result")

handleDecision == \E decision \in Decisions : handleDecisionOf(decision)

\* the timeout of handleSwipe runs
swipeTimerFires ==
    \E timer \in timers :
        /\ cardVersion = "swipe"
        /\ IF timer.currentIndex < timer.length - 1
           THEN /\ currentIndex' = timer.currentIndex + 1
                /\ UNCHANGED feedback
           ELSE /\ feedback' = "No more images to review!"
                /\ UNCHANGED currentIndex
        /\ timers' = timers \ {timer}
        /\ UNCHANGED <<images, cardLoading, cardVersion, dbVars>>

\* the timeout of handleDecision runs, not at the last image
decisionTimerAdvances ==
    \E timer \in timers :
        /\ cardVersion = "buttons"
        /\ timer.currentIndex < timer.length - 1
        /\ feedback' = ""
        /\ currentIndex' = timer.currentIndex + 1
        /\ timers' = timers \ {timer}
        /\ UNCHANGED <<images, cardLoading, cardVersion, dbVars>>

\* the timeout of handleDecision runs at the last image: the feedback, then
\* loadPendingImages
decisionTimerReloads ==
    \E timer \in timers, firstOk \in BOOLEAN, recordsOk \in BOOLEAN :
        /\ cardVersion = "buttons"
        /\ ~(timer.currentIndex < timer.length - 1)
        /\ IF firstOk
           THEN /\ queueLoaded(recordsOk)
                /\ feedback' = "All images have been reviewed"
           ELSE /\ feedback' = "Failed to load images"
                /\ cardLoading' = FALSE
                /\ UNCHANGED <<images, currentIndex>>
        /\ timers' = timers \ {timer}
        /\ UNCHANGED <<cardVersion, dbVars>>

\* navigateImage('prev' | 'next'), of the version with buttons
navigateImage ==
    \E direction \in {"prev", "next"} :
        /\ cardVersion = "buttons"
        /\ hasCurrentImage
        /\ \/ direction = "prev" /\ currentIndex > 0
                 /\ currentIndex' = currentIndex - 1
           \/ direction = "next" /\ currentIndex < Len(images) - 1
                 /\ currentIndex' = currentIndex + 1
        /\ UNCHANGED <<images, cardLoading, feedback, cardVersion, timers, dbVars>>

\* the page is opened again: the component starts from its initial state, and the
\* timeouts of the old one set nothing
Remount ==
    /\ ~cardLoading
    /\ images' = <<>>
    /\ currentIndex' = 0
    /\ cardLoading' = TRUE
    /\ feedback' = ""
    /\ timers' = {}
    /\ swipeState' = initialSwipeState
    /\ lastMouse' = "none"
    /\ UNCHANGED <<cardVersion, dbVars>>

(***************************************************************************)
(* The mouse handlers of InspectionCard's card-wrapper (the version with   *)
(* swipes).  Coordinates are whole pixels.                                 *)
(***************************************************************************)
\* distance > 50, deltaY < -50
SwipeDistance == 50

\* e.clientX and e.clientY of the mouse events
ClientXs == {0, 30, 100}
ClientYs == {0, 40, 100}

\* Math.abs
Abs(n) == IF n < 0 THEN -n ELSE n

\* handleMouseUp's branches on a dragging swipeState: the direction it hands to
\* handleSwipe, "none" where it calls nothing.  Math.sqrt(d) > 50 is d > 50 * 50.
swipeOf(state) ==
    LET deltaX == state.currentX - state.startX
        deltaY == state.currentY - state.startY
    IN  IF deltaX * deltaX + deltaY * deltaY > SwipeDistance * SwipeDistance
        THEN IF Abs(deltaX) > Abs(deltaY)
             THEN IF deltaX > 0 THEN "right" ELSE "left"
             ELSE IF deltaY < -SwipeDistance THEN "up" ELSE "none"
        ELSE "none"

\* onMouseDown={handleMouseDown}, the press at (x, y); card-wrapper is rendered
\* when the card shows an image
handleMouseDownAt(x, y) ==
    /\ cardVersion = "swipe"
    /\ hasCurrentImage
    /\ swipeState' = [swipeState EXCEPT !.startX = x, !.startY = y,
                                        !.isDragging = TRUE]
    /\ lastMouse' = "down"
    /\ UNCHANGED <<cardVars, dbVars>>

handleMouseDown == \E x \in ClientXs, y \in ClientYs : handleMouseDownAt(x, y)

\* onMouseMove={handleMouseMove}
handleMouseMove ==
    \E x \in ClientXs, y \in ClientYs :
        /\ cardVersion = "swipe"
        /\ hasCurrentImage
        /\ IF ~swipeState.isDragging
           THEN UNCHANGED swipeState
           ELSE swipeState' = [swipeState EXCEPT !.currentX = x, !.currentY = y]
        /\ lastMouse' = "move"
        /\ UNCHANGED <<cardVars, dbVars>>

\* onMouseUp={handleMouseUp} and onMouseLeave={handleMouseUp}, with the
\* handleSwipe it awaits
handleMouseUp ==
    /\ cardVersion = "swipe"
    /\ hasCurrentImage
    /\ lastMouse' = "up"
    /\ IF ~swipeState.isDragging
       THEN UNCHANGED <<swipeState, cardVars, dbVars>>
       ELSE /\ IF swipeOf(swipeState) # "none"
               THEN handleSwipeOf(swipeOf(swipeState))
               ELSE UNCHANGED <<cardVars, dbVars>>
            /\ swipeState' = [swipeState EXCEPT !.currentX = swipeState.startX,
                                                !.currentY = swipeState.startY,
                                                !.isDragging = FALSE]

(***************************************************************************)
(* DefectViewer's segment buttons and the metrics shown for the selected   *)
(* segment.  The prop analysisResult is the detected_defects of the image  *)
(* InspectionCard shows.                                                   *)
(***************************************************************************)
\* analysisResult={analysisResult}: currentImage.detected_defects as AnalysisResult
analysisResult == images[currentIndex + 1].detected_defects

\* an AnalysisResult that lists the flagged segments only
flaggedOnlyResult ==
    [sampleResultDefect EXCEPT
        !.segments = SelectSeq(@, LAMBDA sr : sr.anomaly_detected)]

\* an AnalysisResult that lists its nine segments from the last to the first
lastFirstResult ==
    [sampleResultDefect EXCEPT !.segments = [k \in 1..9 |-> @[10 - k]]]

\* values of the type AnalysisResult (segments: SegmentResult[]) a client stores
\* in detected_defects: the pipeline's own, and the two above
SegmentJsonSamples == {sampleResultDefect, flaggedOnlyResult, lastFirstResult}

\* UPDATE test_images SET detected_defects = .. by an authenticated client
writeDetectedDefects ==
    \E uid \in auth_users, t \in test_images, json \in SegmentJsonSamples :
        /\ json # t.detected_defects
        /\ UpdateTestImageAs(uid, "authenticated", t, t.processed, json)

\* the button that sets showDefectViewer, rendered once the card shows an image
openDefectViewer == hasCurrentImage /\ ExamineDefects

\* JavaScript's null and undefined, as values of selectedSegmentData
NullSegment == [segment_index |-> -1, verdict |-> "null"]
UndefinedSegment == [segment_index |-> -1, verdict |-> "undefined"]

\* array[i] of JavaScript, i an integer: undefined outside 0..length-1
At(array, i) ==
    IF i + 1 \in 1..Len(array) THEN array[i + 1] ELSE UndefinedSegment

\* const selectedSegmentData =
\*     selectedSegment !== null ? analysisResult.segments[selectedSegment] : null
selectedSegmentData ==
    IF selectedSegment # -1
    THEN At(analysisResult.segments, selectedSegment)
    ELSE NullSegment

\* the k-th button of analysisResult.segments.map is clicked:
\* setSelectedSegment(segment.segment_index), and the effect on [selectedSegment]
\* runs loadCroppedImages up to its await
clickSegmentButtonOf(k) ==
    LET idx == analysisResult.segments[k].segment_index
    IN  /\ showDefectViewer
        /\ idx # selectedSegment
        /\ Cardinality(inFlight \cup {loadCroppedImages(idx)}) <= MaxInFlight
        /\ selectedSegment' = idx
        /\ loading' = TRUE
        /\ inFlight' = inFlight \cup {loadCroppedImages(idx)}
        /\ UNCHANGED <<testImage, masterImage, showDefectViewer,
                       croppedTestImage, croppedMasterImage>>

clickSegmentButton ==
    /\ showDefectViewer
    /\ \E k \in 1..Len(analysisResult.segments) : clickSegmentButtonOf(k)

(***************************************************************************)
(* The cropper called on every image size up to MaxDim.                    *)
(***************************************************************************)
CropperUnused ==
    /\ imageWidth = 1
    /\ imageHeight = 1
    /\ gridIndex = -1
    /\ region = NoRegion
    /\ segments = <<>>

ViewerUnused ==
    /\ testImage = [width |-> DefaultImageWidth, height |-> DefaultImageHeight]
    /\ masterImage = [width |-> DefaultImageWidth, height |-> DefaultImageHeight]
    /\ ViewerClosed

\* one signed-in user, no log written, no test image uploaded
AuthUnused ==
    /\ auth_users = {1}
    /\ inspection_logs = {}
    /\ uploadedBy = {}

\* AdminPanel's initial state, in the session of the given JWT role
AdminMountedAs(jwtRole) ==
    /\ templates = <<>>
    /\ adminLoading = TRUE
    /\ adminFeedback = ""
    /\ adminJwtRole = jwtRole

AdminUnmounted == AdminMountedAs("authenticated")

DbEmpty ==
    /\ golden_images = {}
    /\ test_images = {}
    /\ image_segments = {}
    /\ defect_records = {}

Init ==
    /\ imageWidth \in 1..MaxDim
    /\ imageHeight \in 1..MaxDim
    /\ gridIndex = -1
    /\ region = NoRegion
    /\ segments = <<>>
    /\ ViewerUnused
    /\ DbEmpty
    /\ PipelineIdle
    /\ CardMounted
    /\ AuthUnused
    /\ AdminUnmounted

CallGetGridSegmentRegion ==
    \E i \in 0..8 :
        /\ gridIndex' = i
        /\ region' = getGridSegmentRegion(imageWidth, imageHeight, i)
        /\ UNCHANGED <<imageWidth, imageHeight, segments>>

CallGetAllGridSegments ==
    /\ segments' = getAllGridSegments(imageWidth, imageHeight)
    /\ UNCHANGED <<imageWidth, imageHeight, gridIndex, region>>

Next ==
    \/ CallGetGridSegmentRegion /\ UNCHANGED <<viewerVars, dbVars, pipelineVars, cardVars,
           authVars, adminVars,
           swipeVars>>
    \/ CallGetAllGridSegments /\ UNCHANGED <<viewerVars, dbVars, pipelineVars, cardVars,
           authVars, adminVars,
           swipeVars>>

Spec == Init /\ [][Next]_vars

(***************************************************************************)
(* InspectionCard showing an image pair of any of the sizes, and the       *)
(* DefectViewer opened on it.                                              *)
(***************************************************************************)
InitViewer ==
    /\ testImage \in ImageSizes
    /\ masterImage \in ImageSizes
    /\ ViewerClosed
    /\ CropperUnused
    /\ DbEmpty
    /\ PipelineIdle
    /\ CardMounted
    /\ AuthUnused
    /\ AdminUnmounted

NextViewer ==
    \/ ExamineDefects /\ UNCHANGED <<cropVars, dbVars, pipelineVars, cardVars,
           authVars, adminVars,
           swipeVars>>
    \/ CloseViewer /\ UNCHANGED <<cropVars, dbVars, pipelineVars, cardVars,
           authVars, adminVars,
           swipeVars>>
    \/ SelectSegment /\ UNCHANGED <<cropVars, dbVars, pipelineVars, cardVars,
           authVars, adminVars,
           swipeVars>>
    \/ CropsLoaded /\ UNCHANGED <<cropVars, dbVars, pipelineVars, cardVars,
           authVars, adminVars,
           swipeVars>>
    \/ CropsFailed /\ UNCHANGED <<cropVars, dbVars, pipelineVars, cardVars,
           authVars, adminVars,
           swipeVars>>

SpecViewer == InitViewer /\ [][NextViewer]_vars

(***************************************************************************)
(* One uploaded test image taken through the pipeline and shown by         *)
(* InspectionCard.                                                         *)
(***************************************************************************)
InitAnalysis ==
    /\ golden_images = {goldenImage(1, "A")}
    /\ test_images = {uploadedTestImage(1, 1)}
    /\ image_segments = {}
    /\ defect_records = {}
    /\ PipelineIdle
    /\ CardMounted
    /\ AuthUnused
    /\ AdminUnmounted
    /\ CropperUnused
    /\ ViewerUnused

NextAnalysis ==
    \/ StartAnalysis /\ UNCHANGED <<cropVars, viewerVars, cardVars,
           authVars, adminVars,
           swipeVars>>
    \/ AlignOk /\ UNCHANGED <<cropVars, viewerVars, cardVars,
           authVars, adminVars,
           swipeVars>>
    \/ SegmentOk /\ UNCHANGED <<cropVars, viewerVars, cardVars,
           authVars, adminVars,
           swipeVars>>
    \/ ScoreNextSegment /\ UNCHANGED <<cropVars, viewerVars, cardVars,
           authVars, adminVars,
           swipeVars>>
    \/ AllScored /\ UNCHANGED <<cropVars, viewerVars, cardVars,
           authVars, adminVars,
           swipeVars>>
    \/ PersistResult /\ UNCHANGED <<cropVars, viewerVars, cardVars,
           authVars, adminVars,
           swipeVars>>
    \/ PipelineFails /\ UNCHANGED <<cropVars, viewerVars, cardVars,
           authVars, adminVars,
           swipeVars>>
    \/ RetryAnalysis /\ UNCHANGED <<cropVars, viewerVars, cardVars,
           authVars, adminVars,
           swipeVars>>
    \/ LoadPendingImages /\ UNCHANGED <<cropVars, viewerVars, dbVars, pipelineVars,
           authVars, adminVars,
           swipeVars>>
    \/ LoadPendingImagesFails /\ UNCHANGED <<cropVars, viewerVars, dbVars, pipelineVars,
           authVars, adminVars,
           swipeVars>>

SpecAnalysis == InitAnalysis /\ [][NextAnalysis]_vars

(***************************************************************************)
(* The database under the requests its policies admit, one template in it. *)
(***************************************************************************)
InitDb ==
    /\ golden_images = {goldenImage(1, "A")}
    /\ test_images = {}
    /\ image_segments = {}
    /\ defect_records = {}
    /\ PipelineIdle
    /\ CardMounted
    /\ AuthUnused
    /\ AdminUnmounted
    /\ CropperUnused
    /\ ViewerUnused

NextDb ==
    \/ InsertTestImage /\ UNCHANGED <<cropVars, viewerVars, pipelineVars, cardVars,
           adminVars,
           swipeVars>>
    \/ UpdateTestImage /\ UNCHANGED <<cropVars, viewerVars, pipelineVars, cardVars,
           authVars, adminVars,
           swipeVars>>
    \/ InsertImageSegment /\ UNCHANGED <<cropVars, viewerVars, pipelineVars, cardVars,
           authVars, adminVars,
           swipeVars>>
    \/ AnalyzeAndPersist /\ UNCHANGED <<cropVars, viewerVars, pipelineVars, cardVars,
           authVars, adminVars,
           swipeVars>>

SpecDb == InitDb /\ [][NextDb]_vars

(***************************************************************************)
(* AdminPanel in a session of any JWT role, and requests sent to           *)
(* golden_images directly.                                                 *)
(***************************************************************************)
InitAdmin ==
    /\ golden_images = {goldenImage(1, "A")}
    /\ test_images = {}
    /\ image_segments = {}
    /\ defect_records = {}
    /\ \E jwtRole \in JwtRoles : AdminMountedAs(jwtRole)
    /\ AuthUnused
    /\ PipelineIdle
    /\ CardMounted
    /\ CropperUnused
    /\ ViewerUnused

NextAdmin ==
    \/ loadTemplates /\ UNCHANGED <<cropVars, viewerVars, pipelineVars, cardVars, authVars,
           swipeVars>>
    \/ handleUpload /\ UNCHANGED <<cropVars, viewerVars, pipelineVars, cardVars, authVars,
           swipeVars>>
    \/ handleDelete /\ UNCHANGED <<cropVars, viewerVars, pipelineVars, cardVars, authVars,
           swipeVars>>
    \/ InsertGoldenImage /\ UNCHANGED <<cropVars, viewerVars, pipelineVars, cardVars,
           authVars, adminVars,
           swipeVars>>
    \/ UpdateGoldenImage /\ UNCHANGED <<cropVars, viewerVars, pipelineVars, cardVars,
           authVars, adminVars,
           swipeVars>>

SpecAdmin == InitAdmin /\ [][NextAdmin]_vars

(***************************************************************************)
(* Two users and the test images they upload and update.                   *)
(***************************************************************************)
InitAccess ==
    /\ golden_images = {goldenImage(1, "A")}
    /\ test_images = {}
    /\ image_segments = {}
    /\ defect_records = {}
    /\ auth_users = 1..MaxUsers
    /\ inspection_logs = {}
    /\ uploadedBy = {}
    /\ AdminUnmounted
    /\ PipelineIdle
    /\ CardMounted
    /\ CropperUnused
    /\ ViewerUnused

NextAccess ==
    \/ InsertTestImage /\ UNCHANGED <<cropVars, viewerVars, pipelineVars, cardVars,
           adminVars,
           swipeVars>>
    \/ UpdateTestImage /\ UNCHANGED <<cropVars, viewerVars, pipelineVars, cardVars,
           authVars, adminVars,
           swipeVars>>
    \/ DeleteAuthUser /\ UNCHANGED <<cropVars, viewerVars, pipelineVars, cardVars,
           dbVars, adminVars,
           swipeVars>>

SpecAccess == InitAccess /\ [][NextAccess]_vars

(***************************************************************************)
(* The audit logs of the users alone.                                      *)
(***************************************************************************)
NextLogs ==
    \/ InsertInspectionLog /\ UNCHANGED <<cropVars, viewerVars, pipelineVars, cardVars,
           dbVars, adminVars,
           swipeVars>>
    \/ UpdateInspectionLog /\ UNCHANGED <<cropVars, viewerVars, pipelineVars, cardVars,
           dbVars, adminVars,
           swipeVars>>
    \/ DeleteInspectionLog /\ UNCHANGED <<cropVars, viewerVars, pipelineVars, cardVars,
           dbVars, adminVars,
           swipeVars>>
    \/ DeleteAuthUser /\ UNCHANGED <<cropVars, viewerVars, pipelineVars, cardVars,
           dbVars, adminVars,
           swipeVars>>

SpecLogs == InitAccess /\ [][NextLogs]_vars

(***************************************************************************)
(* InspectionCard, either version, mounted on a database of processed test *)
(* images of which the newest have been reviewed in earlier sessions.      *)
(***************************************************************************)
MaxPending == 2

\* numbers of processed test images: few, and around the lower of the limits
QueueSizes == {0, 1, 2, SwipeQueueLimit, SwipeQueueLimit + 1}

\* a test image the pipeline has processed
processedTestImage(id) ==
    persistedTestImage(uploadedTestImage(id, 1), sampleResultNormal)

InitCard ==
    /\ golden_images = {goldenImage(1, "A")}
    /\ \E n \in QueueSizes, pending \in 0..MaxPending :
          /\ pending <= n
          /\ test_images = {processedTestImage(id) : id \in 1..n}
          /\ defect_records =
                {defectRecord(id - pending, id, "accept", Null, Null) :
                     id \in (pending + 1)..n}
    /\ image_segments = {}
    /\ \E version \in {"swipe", "buttons"} : CardMountedAs(version)
    /\ AuthUnused
    /\ AdminUnmounted
    /\ PipelineIdle
    /\ CropperUnused
    /\ ViewerUnused

NextCard ==
    \/ LoadPendingImages /\ UNCHANGED <<cropVars, viewerVars, dbVars, pipelineVars,
           authVars, adminVars,
           swipeVars>>
    \/ LoadPendingImagesFails /\ UNCHANGED <<cropVars, viewerVars, dbVars, pipelineVars,
           authVars, adminVars,
           swipeVars>>
    \/ handleSwipe /\ UNCHANGED <<cropVars, viewerVars, pipelineVars, authVars, adminVars,
           swipeVars>>
    \/ swipeTimerFires /\ UNCHANGED <<cropVars, viewerVars, pipelineVars, authVars, adminVars,
           swipeVars>>
    \/ handleDecision /\ UNCHANGED <<cropVars, viewerVars, pipelineVars, authVars, adminVars,
           swipeVars>>
    \/ decisionTimerAdvances /\ UNCHANGED <<cropVars, viewerVars, pipelineVars, authVars,
           adminVars,
           swipeVars>>
    \/ decisionTimerReloads /\ UNCHANGED <<cropVars, viewerVars, pipelineVars, authVars,
           adminVars,
           swipeVars>>
    \/ navigateImage /\ UNCHANGED <<cropVars, viewerVars, pipelineVars, authVars, adminVars,
           swipeVars>>
    \/ Remount /\ UNCHANGED <<cropVars, viewerVars, pipelineVars, authVars, adminVars>>
    \/ InsertDefectRecord /\ UNCHANGED <<cropVars, viewerVars, pipelineVars, cardVars,
           authVars, adminVars,
           swipeVars>>

SpecCard == InitCard /\ [][NextCard]_vars

(***************************************************************************)
(* InspectionCard on one processed test image whose detected_defects       *)
(* clients rewrite, and the DefectViewer opened on it.                     *)
(***************************************************************************)
InitSegments ==
    /\ golden_images = {goldenImage(1, "A")}
    /\ test_images = {persistedTestImage(uploadedTestImage(1, 1), sampleResultDefect)}
    /\ image_segments = {}
    /\ defect_records = {}
    /\ CardMounted
    /\ ViewerUnused
    /\ AuthUnused
    /\ AdminUnmounted
    /\ PipelineIdle
    /\ CropperUnused

NextSegments ==
    \/ writeDetectedDefects /\ UNCHANGED <<cropVars, viewerVars, pipelineVars, cardVars,
           authVars, adminVars,
           swipeVars>>
    \/ LoadPendingImages /\ UNCHANGED <<cropVars, viewerVars, dbVars, pipelineVars,
           authVars, adminVars,
           swipeVars>>
    \/ openDefectViewer /\ UNCHANGED <<cropVars, dbVars, pipelineVars, cardVars,
           authVars, adminVars,
           swipeVars>>
    \/ CloseViewer /\ UNCHANGED <<cropVars, dbVars, pipelineVars, cardVars,
           authVars, adminVars,
           swipeVars>>
    \/ clickSegmentButton /\ UNCHANGED <<cropVars, dbVars, pipelineVars, cardVars,
           authVars, adminVars,
           swipeVars>>
    \/ CropsLoaded /\ UNCHANGED <<cropVars, dbVars, pipelineVars, cardVars,
           authVars, adminVars,
           swipeVars>>
    \/ CropsFailed /\ UNCHANGED <<cropVars, dbVars, pipelineVars, cardVars,
           authVars, adminVars,
           swipeVars>>

SpecSegments == InitSegments /\ [][NextSegments]_vars

(***************************************************************************)
(* The version with swipes on a queue of unreviewed images, the mouse      *)
(* pressed, moved and released over the card.                              *)
(***************************************************************************)
InitSwipe ==
    /\ golden_images = {goldenImage(1, "A")}
    /\ test_images = {processedTestImage(id) : id \in 1..MaxPending}
    /\ image_segments = {}
    /\ defect_records = {}
    /\ CardMountedAs("swipe")
    /\ ViewerUnused
    /\ AuthUnused
    /\ AdminUnmounted
    /\ PipelineIdle
    /\ CropperUnused

NextSwipe ==
    \/ LoadPendingImages /\ UNCHANGED <<cropVars, viewerVars, dbVars, pipelineVars,
           authVars, adminVars, swipeVars>>
    \/ LoadPendingImagesFails /\ UNCHANGED <<cropVars, viewerVars, dbVars, pipelineVars,
           authVars, adminVars, swipeVars>>
    \/ handleMouseDown /\ UNCHANGED <<cropVars, viewerVars, pipelineVars, authVars,
           adminVars>>
    \/ handleMouseMove /\ UNCHANGED <<cropVars, viewerVars, pipelineVars, authVars,
           adminVars>>
    \/ handleMouseUp /\ UNCHANGED <<cropVars, viewerVars, pipelineVars, authVars,
           adminVars>>
    \/ swipeTimerFires /\ UNCHANGED <<cropVars, viewerVars, pipelineVars, authVars,
           adminVars, swipeVars>>
    \/ Remount /\ UNCHANGED <<cropVars, viewerVars, pipelineVars, authVars, adminVars>>

SpecSwipe == InitSwipe /\ [][NextSwipe]_vars

(***************************************************************************)
(* Claims about the grid cropper.                                          *)
(***************************************************************************)
Covers(r, px, py) ==
    /\ r.x <= px /\ px < r.x + r.width
    /\ r.y <= py /\ py < r.y + r.height

\* the coordinates at which some region, or the image, begins or ends
XCuts == {0, Px(imageWidth)} \cup {segments[k].x : k \in 1..9}
            \cup {segments[k].x + segments[k].width : k \in 1..9}
YCuts == {0, Px(imageHeight)} \cup {segments[k].y : k \in 1..9}
            \cup {segments[k].y + segments[k].height : k \in 1..9}

\* C1: the 9 regions of getAllGridSegments tile [0,width) x [0,height): no region
\* leaves the rectangle and every point of it lies in exactly one region.  Between
\* two neighbouring cuts no region begins or ends, so the points at the cuts decide
\* for all points.
C1_GridTilesImage ==
    segments # <<>> =>
        /\ \A k \in 1..9 :
              /\ 0 <= segments[k].x /\ 0 <= segments[k].y
              /\ segments[k].x + segments[k].width <= Px(imageWidth)
              /\ segments[k].y + segments[k].height <= Px(imageHeight)
        /\ \A px \in XCuts, py \in YCuts :
              (0 <= px /\ px < Px(imageWidth) /\ 0 <= py /\ py < Px(imageHeight))
                  => Cardinality({k \in 1..9 : Covers(segments[k], px, py)}) = 1

C1_Witness ==
    /\ segments # <<>>
    /\ imageWidth % gridSize = 1
    /\ imageHeight % gridSize = 2

\* C2: a region of column 0 or 1 is floor(imageWidth / 3) wide and a region of
\* row 0 or 1 is floor(imageHeight / 3) high, whatever the dimensions.
C2_InnerCellsFloorSized ==
    gridIndex >= 0 =>
        /\ (gridIndex % gridSize < gridSize - 1)
              => region.width = Px(imageWidth \div gridSize)
        /\ (gridIndex \div gridSize < gridSize - 1)
              => region.height = Px(imageHeight \div gridSize)

\* C3: every region of the last column ends at x + width = imageWidth and every
\* region of the last row ends at y + height = imageHeight.
C3_LastCellsReachEdge ==
    /\ gridIndex >= 0 =>
          /\ (gridIndex % gridSize = gridSize - 1)
                => region.x + region.width = Px(imageWidth)
          /\ (gridIndex \div gridSize = gridSize - 1)
                => region.y + region.height = Px(imageHeight)
    /\ segments # <<>> =>
          /\ \A k \in {3, 6, 9} : segments[k].x + segments[k].width = Px(imageWidth)
          /\ \A k \in {7, 8, 9} : segments[k].y + segments[k].height = Px(imageHeight)

\* the corner cell of an image whose thirds are not whole pixels: its size is
\* not the rounded third the other cells get
C3_Witness ==
    /\ gridIndex = 8
    /\ imageWidth % gridSize # 0
    /\ imageHeight % gridSize # 0
    /\ region.width # DivByGridSize(imageWidth)
    /\ region.height # DivByGridSize(imageHeight)

\* C4: indexing is row-major.  Cells with the same index mod 3 share a column,
\* cells with the same index div 3 share a row, a smaller index mod 3 lies to the
\* left and a smaller index div 3 lies above; element i of getAllGridSegments is
\* the region getGridSegmentRegion gives for gridIndex i.
C4_RowMajorOrder ==
    /\ segments # <<>> =>
          \A i \in 0..8, j \in 0..8 :
              LET a == segments[i + 1]
                  b == segments[j + 1]
              IN  /\ (i % 3 = j % 3) => (a.x = b.x /\ a.width = b.width)
                  /\ (i \div 3 = j \div 3) => (a.y = b.y /\ a.height = b.height)
                  /\ (i % 3 < j % 3) => a.x + a.width <= b.x
                  /\ (i \div 3 < j \div 3) => a.y + a.height <= b.y
    /\ (segments # <<>> /\ gridIndex >= 0) => region = segments[gridIndex + 1]

C4_Witness ==
    /\ segments # <<>>
    /\ gridIndex = 5
    /\ region.x > 0
    /\ region.y > 0

\* C5: for imageWidth, imageHeight >= 1 the region has 0 <= x, 0 <= y, width > 0,
\* height > 0, x + width <= imageWidth and y + height <= imageHeight.
C5_RegionWithinImage ==
    gridIndex >= 0 =>
        /\ 0 <= region.x /\ 0 <= region.y
        /\ region.width > 0 /\ region.height > 0
        /\ region.x + region.width <= Px(imageWidth)
        /\ region.y + region.height <= Px(imageHeight)

C5_Witness ==
    /\ gridIndex = 8
    /\ imageWidth = 1
    /\ imageHeight = 1
    /\ region.width > 0

(***************************************************************************)
(* Claims about DefectViewer's crops.                                      *)
(***************************************************************************)
Inside(r, img) ==
    /\ 0 <= r.x /\ 0 <= r.y
    /\ r.x + r.width <= Px(img.width)
    /\ r.y + r.height <= Px(img.height)

\* C6: every crop region DefectViewer requests for a selected segment lies inside
\* the test image and inside the master image that is cropped with it.
C6_CropsInsideRealImages ==
    \A load \in inFlight :
        /\ Inside(load.testCrop.region, testImage)
        /\ Inside(load.masterCrop.region, masterImage)

analysisResults ==
    (IF result = NoResult THEN {} ELSE {result})
        \cup {t.detected_defects : t \in {q \in test_images : q.detected_defects # EmptyJson}}
        \cup analysisResultShown

anomalousSegments(ar) ==
    {k \in 1..Len(ar.segments) : ar.segments[k].anomaly_detected}

segmentRowsOf(t) == {r \in image_segments : r.test_image_id = t.id}

C13_OnlyAdminsChangeTemplates ==
    [][\A jwtRole \in JwtRoles \ {"admin"} :
          (\/ \E name \in TemplateNames : InsertGoldenImageAs(jwtRole, name)
           \/ \E id \in 1..MaxTemplates, name \in TemplateNames :
                  UpdateGoldenImageAs(jwtRole, id, name)
           \/ adminJwtRole = jwtRole /\ handleUpload)
          => golden_images' = golden_images]_vars

\* a session that is not an admin's had its upload refused, while an admin's
\* requests have added a template and renamed one
C13_Witness ==
    /\ adminJwtRole # "admin"
    /\ adminFeedback = "Upload failed. Please try again."
    /\ goldenImage(1, "B") \in golden_images
    /\ Cardinality(golden_images) > 1

\* C14: when handleDelete(id) ends with 'Template deleted successfully', no
\* golden_images row has that id and the reloaded list does not contain it.
C14_DeletedTemplateIsGone ==
    [][\A id \in 1..MaxTemplates :
          (handleDeleteOf(id) /\ adminFeedback' = "Template deleted successfully")
          => /\ \A g \in golden_images' : g.id # id
             /\ \A k \in 1..Len(templates') : templates'[k].id # id]_vars

(***************************************************************************)
(* Claims about inspection logs and the ownership of test images.          *)
(***************************************************************************)
\* C15: an inspection_logs row, once inserted, stays in the table with every
\* column as it was, whatever the users do and also when the auth user it refers
\* to is deleted.
C15_LogsImmutable ==
    [][\A l \in inspection_logs : l \in inspection_logs']_vars

\* C16: an UPDATE of a test_images row by an authenticated user changes the row
\* only if that user sent the INSERT of the row.
C16_UpdateOnlyOwnTestImages ==
    [][\A uid \in auth_users, t \in test_images :
          (/\ \E processed \in BOOLEAN, json \in JsonSamples :
                  UpdateTestImageAs(uid, "authenticated", t, processed, json)
           /\ t \notin test_images')
          => <<t.id, uid>> \in uploadedBy]_vars

\* C17: a user reads only the inspection_logs rows whose user_id is their own id,
\* a row a user inserts carries their own id, and an insert by one user leaves
\* what every other user reads as it was.
C17_LogsPrivate ==
    [][/\ \A uid \in 1..MaxUsers :
              \A l \in visibleLogs(inspection_logs, uid) : l.user_id = uid
       /\ \A uid \in 1..MaxUsers, userId \in 0..MaxUsers, action \in LogActions :
              InsertInspectionLogAs("authenticated", uid, userId, action) =>
                  /\ \A l \in inspection_logs' \ inspection_logs : l.user_id = uid
                  /\ \A other \in (1..MaxUsers) \ {uid} :
                         visibleLogs(inspection_logs', other)
                             = visibleLogs(inspection_logs, other)]_vars

\* each of two users has written a log, and reads that one only
C17_Witness ==
    /\ \A uid \in 1..MaxUsers : Cardinality(visibleLogs(inspection_logs, uid)) = 1
    /\ Cardinality(inspection_logs) >= MaxUsers

(***************************************************************************)
(* Claims about the inspector's decisions and the inspection queue.        *)
(***************************************************************************)
\* C18: a row handleSwipe inserts pairs its direction and decision as (right,
\* accept), (left, reject) or (up, review_later); every row of defect_records
\* has user_decision among accept, reject, review_later and swipe_direction
\* among left, right, up, or null.
C18_DecisionPairs ==
    [][/\ \A r \in defect_records :
              /\ r.user_decision \in {"accept", "reject", "review_later"}
              /\ r.swipe_direction \in {"left", "right", "up", Null}
       /\ \A direction \in Directions :
              handleSwipeOf(direction) =>
                  \A r \in defect_records' \ defect_records :
                      <<r.swipe_direction, r.user_decision>> \in
                          {<<"right", "accept">>, <<"left", "reject">>,
                           <<"up", "review_later">>}]_vars

\* swipes up and to the left are stored beside rows of the version with buttons
\* and a row a client sent
C18_Witness ==
    /\ cardVersion = "swipe"
    /\ \E r \in defect_records : r.swipe_direction = "up"
    /\ \E r \in defect_records : r.swipe_direction = "left" /\ r.notes = Null
    /\ \E r \in defect_records : r.swipe_direction = Null
    /\ \E r \in defect_records : r.notes = ClientNotes

\* a loadPendingImages whose first query is answered: on mount, from the empty
\* state, or from the timeout of handleDecision
loadSucceeds ==
    \/ LoadPendingImages
    \/ decisionTimerReloads /\ feedback' = "All images have been reviewed"

\* C19: when loadPendingImages succeeds and leaves the queue empty, every
\* test_images row with processed = true has a defect_records row.
C19_EmptyQueueMeansAllReviewed ==
    [][(loadSucceeds /\ images' = <<>>) =>
          \A t \in test_images : t.processed => recordsOf(t.id) # {}]_vars

\* the images whose only decisions are review_later
reviewLaterImages ==
    {t \in test_images :
        /\ t.processed
        /\ recordsOf(t.id) # {}
        /\ \A r \in recordsOf(t.id) : r.user_decision = "review_later"}

\* C20: a loadPendingImages that succeeds after review_later was recorded for an
\* image puts that image in the queue (the image being among those the first
\* query returns).
C20_ReviewLaterComesBack ==
    [][loadSucceeds =>
          \A t \in reviewLaterImages :
              (\E k \in 1..Len(processedImages) : processedImages[k].id = t.id)
              => \E k \in 1..Len(images') : images'[k].id = t.id]_vars

\* C21: in DefectViewer, once a segment button has been clicked, the segment whose
\* metrics are shown is the one of that button: selectedSegmentData is not
\* undefined and its segment_index is the selected index.
C21_SelectedSegmentShown ==
    (showDefectViewer /\ selectedSegment # -1) =>
        /\ selectedSegmentData # UndefinedSegment
        /\ selectedSegmentData.segment_index = selectedSegment

\* C22: in the version with swipes, a release (onMouseUp or onMouseLeave) that
\* comes right after a press, no mouse move between them, stores no decision:
\* defect_records is left as it was.
C22_PressReleaseRecordsNothing ==
    [][(handleMouseUp /\ lastMouse = "down")
          => defect_records' = defect_records]_vars

====
